---- MODULE Spec2Model ----
(***************************************************************************)
(* Lifecycle handlers of the Secrets Manager resources                     *)
(*   ibm_sm_iam_credentials_secret  (resource_ibm_sm_iam_credentials_secret)*)
(*   ibm_sm_public_certificate      (resource_ibm_sm_public_certificate)   *)
(* Create -> provisioning waiter -> Read, and the stand-alone Read (Spec); *)
(* Update, Delete and Read on a record that exists (SpecManaged); Create   *)
(* and Update with a rotation that is not well formed (SpecRequests); two  *)
(* Creates at the same time (SpecConcurrent); the functions of the Secret  *)
(* Mapper alone (SpecMapper).                                              *)
(*                                                                         *)
(* Strings are sequences of tokens so that the composite key can be        *)
(* composed and split as the code does it; "/" is the separator token.     *)
(***************************************************************************)
EXTENDS Integers, Sequences, FiniteSets, TLC

VARIABLES
  kind,     \* the secret type of the resource
  pc,       \* where the running handler stands: idle, waiting, reading, crashed
  op,       \* the handler the host runtime called last
  d,        \* schema.ResourceData: the identity (d.Id()) and the fields
  target,   \* the ID held by the waiter's getSecretOptions
  polls,    \* Refresh calls of the running waiter
  pollLog,  \* what those Refresh calls got, in order (status, state label)
  lastResp, \* the whole response of the latest Refresh
  waitRes,  \* what WaitForState returned
  events,   \* what the running handler did so far, in order
  ret,      \* what the handler returned
  ops,      \* handlers called so far
  call,     \* a call of a Secret Mapper function alone: argument and result
  other     \* a second invocation that runs at the same time, when there is one

vars == <<kind, pc, op, d, target, polls, pollLog, lastResp, waitRes, events,
          ret, ops, call, other>>

(* ---------------------------------------------------------------------- *)
(* Bounds                                                                  *)
(* ---------------------------------------------------------------------- *)
\* polls that fit before the caller-supplied deadline at the latest
MaxPolls == 3
\* lifecycle operations the host runtime starts in one run
MaxOps == 2

(* ---------------------------------------------------------------------- *)
(* Values                                                                  *)
(* ---------------------------------------------------------------------- *)
Kinds == {"iam_credentials", "public_cert"}

Regions == {<<"u", "s">>}
InstanceIds == {<<"i", "1">>}

\* the identifier the remote service assigns to the n-th secret it creates:
\* a new one each time
NewSecretId(n) == <<"s", ToString(n)>>

\* the state labels of the remote service (spec.md, Secret Record)
Labels == {<<"pre_activation">>, <<"active">>, <<"suspended">>,
           <<"deactivated">>, <<"destroyed">>}

\* the integer state code that goes with a label
StateCode(label) ==
  CASE label = <<"pre_activation">> -> 0
    [] label = <<"active">> -> 1
    [] label = <<"suspended">> -> 2
    [] label = <<"deactivated">> -> 3
    [] OTHER -> 5

\* a value of the configuration store: one record shape for every schema
\* type (s: TypeString, n: TypeInt, b: TypeBool, l: TypeList of strings or
\* TypeMap entries, m: TypeList of nested blocks)
Z == [s |-> <<>>, n |-> 0, b |-> FALSE, l |-> <<>>, m |-> <<>>]
S(x) == [Z EXCEPT !.s = x]
N(x) == [Z EXCEPT !.n = x]
B(x) == [Z EXCEPT !.b = x]
L(x) == [Z EXCEPT !.l = x]
M(x) == [Z EXCEPT !.m = x]

\* a value of the remote model: a pointer (nil or a value)
Nil == [nil |-> TRUE, v |-> Z]
P(x) == [nil |-> FALSE, v |-> x]

(* ---------------------------------------------------------------------- *)
(* Composite key                                                           *)
(* ---------------------------------------------------------------------- *)
\* Sprintf3 that leaves out the first separator
Sprintf3NoSeparator(a, b, c) == a \o b \o <<"/">> \o c

\* fmt.Sprintf("%s/%s/%s", region, instanceId, *secret.ID)
Sprintf3(a, b, c) == a \o <<"/">> \o b \o <<"/">> \o c

RECURSIVE SplitFrom(_, _, _)
SplitFrom(s, i, cur) ==
  IF i > Len(s) THEN <<cur>>
  ELSE IF s[i] = "/" THEN <<cur>> \o SplitFrom(s, i + 1, <<>>)
  ELSE SplitFrom(s, i + 1, Append(cur, s[i]))

\* strings.Split(d.Id(), "/")
Split(s) == SplitFrom(s, 1, <<>>)

(* ---------------------------------------------------------------------- *)
(* The remote model (what a Get of the remote service can return)         *)
(* ---------------------------------------------------------------------- *)
Shapes == {"full", "sparse", "bare"}

\* the revisions of the remote record a Get may observe (its updated_at)
Revs == {1, 2}

Tok(f, rev) == <<f, ToString(rev)>>

\* an optional pointer of the remote model: set in a "full" record only
Opt(shape, x) == IF shape = "full" THEN P(x) ELSE Nil

\* secretsmanagerv2.RotationPolicy behind RotationPolicyIntf
RemoteRotation(rev, shape) ==
  [intfNil |-> shape = "bare",
   AutoRotate |-> Opt(shape, B(rev = 1)),
   Interval |-> Opt(shape, N(rev)),
   Unit |-> Opt(shape, S(<<"day">>)),
   RotateKeys |-> Opt(shape, B(rev # 1))]

\* secretsmanagerv2.ChallengeResource
RemoteChallenge(i, rev) ==
  [Domain |-> P(S(Tok("domain", i))),
   Expiration |-> P(N(rev)),
   Status |-> P(S(<<"pending">>)),
   TxtRecordName |-> P(S(Tok("txtname", i))),
   TxtRecordValue |-> P(S(Tok("txtvalue", rev)))]

\* secretsmanagerv2.CertificateIssuanceInfo (Challenges: nil or a list)
RemoteIssuanceInfo(label, rev, shape) ==
  [ptrNil |-> shape = "bare",
   AutoRotated |-> Opt(shape, B(rev = 1)),
   challengesNil |-> shape # "full",
   Challenges |-> IF shape = "full"
                  THEN [i \in 1..rev |-> RemoteChallenge(i, rev)] ELSE <<>>,
   DnsChallengeValidationTime |-> Opt(shape, N(rev)),
   ErrorCode |-> Opt(shape, S(Tok("code", rev))),
   ErrorMessage |-> Opt(shape, S(Tok("message", rev))),
   OrderedOn |-> Opt(shape, N(rev)),
   State |-> Opt(shape, N(StateCode(label))),
   StateDescription |-> Opt(shape, S(label))]

\* secretsmanagerv2.CertificateValidity
RemoteValidity(rev, shape) ==
  [ptrNil |-> shape # "full", NotBefore |-> P(N(rev)), NotAfter |-> P(N(rev + 1))]

\* secretsmanagerv2.IAMCredentialsSecret / secretsmanagerv2.PublicCertificate
RemoteSecret(k, sid, label, rev, shape) ==
  LET iam(x) == IF k = "iam_credentials" THEN x ELSE Nil
      crt(x) == IF k = "public_cert" THEN x ELSE Nil
  IN [ID |-> P(S(sid)),
      CreatedBy |-> P(S(<<"iam-user">>)),
      CreatedAt |-> P(N(1)),
      Crn |-> P(S(<<"crn">> \o sid)),
      CustomMetadata |-> Opt(shape, L(<<Tok("meta", rev)>>)),
      Description |-> Opt(shape, S(Tok("description", rev))),
      Downloaded |-> P(B(rev # 1)),
      Labels |-> Opt(shape, L(<<<<"label">>, Tok("label", rev)>>)),
      LocksTotal |-> P(N(rev - 1)),
      Name |-> P(S(Tok("name", rev))),
      SecretGroupID |-> P(S(<<"default">>)),
      SecretType |-> P(S(<<k>>)),
      State |-> P(N(StateCode(label))),
      StateDescription |-> P(S(label)),
      UpdatedAt |-> P(N(rev)),
      VersionsTotal |-> P(N(rev)),
      Rotation |-> RemoteRotation(rev, shape),
      \* IAM credentials
      TTL |-> iam(P(S(Tok("ttl", rev)))),
      AccessGroups |-> iam(Opt(shape, L(<<<<"group">>>>))),
      ApiKeyID |-> iam(Opt(shape, S(Tok("keyid", rev)))),
      ServiceID |-> iam(P(S(<<"service">>))),
      ServiceIdIsStatic |-> iam(P(B(TRUE))),
      ReuseApiKey |-> iam(P(B(rev = 1))),
      NextRotationDate |-> iam(Opt(shape, N(rev + 1))),
      ApiKey |-> iam(Opt(shape, S(Tok("apikey", rev)))),
      \* public certificate
      CommonName |-> crt(P(S(<<"example.com">>))),
      IssuanceInfo |-> RemoteIssuanceInfo(label, rev, shape),
      KeyAlgorithm |-> crt(P(S(<<"RSA2048">>))),
      Ca |-> crt(P(S(<<"ca">>))),
      Dns |-> crt(P(S(<<"dns">>))),
      BundleCerts |-> crt(P(B(rev = 1))),
      SigningAlgorithm |-> crt(Opt(shape, S(<<"SHA256-RSA">>))),
      AltNames |-> crt(Opt(shape, L(<<<<"alt.example.com">>>>))),
      ExpirationDate |-> crt(Opt(shape, N(rev + 1))),
      Issuer |-> crt(Opt(shape, S(<<"issuer">>))),
      SerialNumber |-> crt(Opt(shape, S(Tok("serial", rev)))),
      Validity |-> RemoteValidity(rev, shape),
      Certificate |-> crt(Opt(shape, S(Tok("pem", rev)))),
      Intermediate |-> crt(Opt(shape, S(Tok("intermediate", rev)))),
      PrivateKey |-> crt(Opt(shape, S(Tok("key", rev))))]

\* the responses of GetSecret / GetSecretWithContext: (result, response, err).
\* On an error the SDK returns a nil result; a network failure has no
\* response at all (status 0 stands for response == nil).
NoRecord == [nilIntf |-> TRUE]
ErrorStatuses == {404, 500, 0}
GetError(status) == [result |-> NoRecord, status |-> status, err |-> TRUE]
GetOk200(k, sid, label, rev, shape) ==
  [result |-> RemoteSecret(k, sid, label, rev, shape), status |-> 200,
   err |-> FALSE]

(* ---------------------------------------------------------------------- *)
(* Secret Mapper, remote -> configuration (the field updates of Read)     *)
(* ---------------------------------------------------------------------- *)
\* d.Set(key, ptr): a nil pointer leaves the field at its zero value
SetPtr(p) == IF p.nil THEN Z ELSE p.v

\* flex.DateTimeToString / strfmt.DateTime.String()
DateTimeString(n) == <<"date", ToString(n)>>
DateTimeToString(p) == IF p.nil THEN S(<<>>) ELSE S(DateTimeString(p.v.n))

\* flex.IntValue
IntValue(p) == IF p.nil THEN N(0) ELSE N(p.v.n)

\* one entry of a map[string]interface{}
Entry(key, val) == [k |-> key, v |-> val]
IfSet(p, key, val) == IF p.nil THEN {} ELSE {Entry(key, val)}

\* resourceIbmSmIamCredentialsSecretRotationPolicyToMap and
\* resourceIbmSmPublicCertificateRotationPolicyToMap (the same body)
RotationPolicyToMap(model) ==
  IfSet(model.AutoRotate, "auto_rotate", SetPtr(model.AutoRotate))
  \cup IfSet(model.Interval, "interval", IntValue(model.Interval))
  \cup IfSet(model.Unit, "unit", SetPtr(model.Unit))
  \cup IfSet(model.RotateKeys, "rotate_keys", SetPtr(model.RotateKeys))

\* resourceIbmSmPublicCertificateChallengeResourceToMap
ChallengeResourceToMap(model) ==
  IfSet(model.Domain, "domain", SetPtr(model.Domain))
  \cup IfSet(model.Expiration, "expiration", DateTimeToString(model.Expiration))
  \cup IfSet(model.Status, "status", SetPtr(model.Status))
  \cup IfSet(model.TxtRecordName, "txt_record_name", SetPtr(model.TxtRecordName))
  \cup IfSet(model.TxtRecordValue, "txt_record_value", SetPtr(model.TxtRecordValue))

\* resourceIbmSmPublicCertificateCertificateIssuanceInfoToMap
CertificateIssuanceInfoToMap(model) ==
  IfSet(model.AutoRotated, "auto_rotated", SetPtr(model.AutoRotated))
  \cup (IF model.challengesNil THEN {}
        ELSE {Entry("challenges",
                    M([i \in 1..Len(model.Challenges) |->
                         ChallengeResourceToMap(model.Challenges[i])]))})
  \cup IfSet(model.DnsChallengeValidationTime, "dns_challenge_validation_time",
             DateTimeToString(model.DnsChallengeValidationTime))
  \cup IfSet(model.ErrorCode, "error_code", SetPtr(model.ErrorCode))
  \cup IfSet(model.ErrorMessage, "error_message", SetPtr(model.ErrorMessage))
  \cup IfSet(model.OrderedOn, "ordered_on", DateTimeToString(model.OrderedOn))
  \cup IfSet(model.State, "state", IntValue(model.State))
  \cup IfSet(model.StateDescription, "state_description",
             SetPtr(model.StateDescription))

\* resourceIbmSmPublicCertificateCertificateValidityToMap
CertificateValidityToMap(model) ==
  {Entry("not_before", DateTimeToString(model.NotBefore)),
   Entry("not_after", DateTimeToString(model.NotAfter))}

\* one d.Set(key, value) of Read
W(key, val) == <<[f |-> key, v |-> val]>>
WIf(cond, key, val) == IF cond THEN W(key, val) ELSE <<>>

\* the d.Set calls of resourceIbmSmIamCredentialsSecretRead, in source order,
\* up to the rotation policy
IamWritesHead(secret, id) ==
  W("secret_id", S(id[3])) \o W("instance_id", S(id[2])) \o W("region", S(id[1]))
  \o W("created_by", SetPtr(secret.CreatedBy))
  \o W("created_at", DateTimeToString(secret.CreatedAt))
  \o W("crn", SetPtr(secret.Crn))
  \o WIf(~secret.CustomMetadata.nil, "custom_metadata", SetPtr(secret.CustomMetadata))
  \o W("description", SetPtr(secret.Description))
  \o W("downloaded", SetPtr(secret.Downloaded))
  \o WIf(~secret.Labels.nil, "labels", SetPtr(secret.Labels))
  \o W("locks_total", IntValue(secret.LocksTotal))
  \o W("name", SetPtr(secret.Name))
  \o W("secret_group_id", SetPtr(secret.SecretGroupID))
  \o W("secret_type", SetPtr(secret.SecretType))
  \o W("state", IntValue(secret.State))
  \o W("state_description", SetPtr(secret.StateDescription))
  \o W("updated_at", DateTimeToString(secret.UpdatedAt))
  \o W("versions_total", IntValue(secret.VersionsTotal))
  \o W("ttl", SetPtr(secret.TTL))
  \o WIf(~secret.AccessGroups.nil, "access_groups", SetPtr(secret.AccessGroups))
  \o W("api_key_id", SetPtr(secret.ApiKeyID))
  \o W("service_id", SetPtr(secret.ServiceID))
  \o W("service_id_is_static", SetPtr(secret.ServiceIdIsStatic))
  \o W("reuse_api_key", SetPtr(secret.ReuseApiKey))

\* ... and from the rotation policy on (the block is written only when the
\* map has an entry)
IamWritesTail(secret) ==
  LET rotationMap == RotationPolicyToMap(secret.Rotation)
  IN WIf(Cardinality(rotationMap) > 0, "rotation", M(<<rotationMap>>))
     \o W("next_rotation_date", DateTimeToString(secret.NextRotationDate))
     \o W("api_key", SetPtr(secret.ApiKey))

\* the d.Set calls of resourceIbmSmPublicCertificateRead, in source order,
\* up to the rotation policy
CertWritesHead(secret, id) ==
  W("secret_id", S(id[3])) \o W("instance_id", S(id[2])) \o W("region", S(id[1]))
  \o W("created_by", SetPtr(secret.CreatedBy))
  \o W("created_at", DateTimeToString(secret.CreatedAt))
  \o W("crn", SetPtr(secret.Crn))
  \o W("downloaded", SetPtr(secret.Downloaded))
  \o W("locks_total", IntValue(secret.LocksTotal))
  \o W("name", SetPtr(secret.Name))
  \o W("secret_group_id", SetPtr(secret.SecretGroupID))
  \o W("secret_type", SetPtr(secret.SecretType))
  \o W("state", IntValue(secret.State))
  \o W("state_description", SetPtr(secret.StateDescription))
  \o W("updated_at", DateTimeToString(secret.UpdatedAt))
  \o W("versions_total", IntValue(secret.VersionsTotal))
  \o W("common_name", SetPtr(secret.CommonName))
  \o WIf(~secret.IssuanceInfo.ptrNil, "issuance_info",
         M(<<CertificateIssuanceInfoToMap(secret.IssuanceInfo)>>))
  \o W("key_algorithm", SetPtr(secret.KeyAlgorithm))
  \o W("ca", SetPtr(secret.Ca))
  \o W("dns", SetPtr(secret.Dns))
  \o W("bundle_certs", SetPtr(secret.BundleCerts))

\* ... and from the rotation policy on (the block is always written)
CertWritesTail(secret) ==
  W("rotation", M(<<RotationPolicyToMap(secret.Rotation)>>))
  \o WIf(~secret.CustomMetadata.nil, "custom_metadata", SetPtr(secret.CustomMetadata))
  \o W("description", SetPtr(secret.Description))
  \o WIf(~secret.Labels.nil, "labels", SetPtr(secret.Labels))
  \o W("signing_algorithm", SetPtr(secret.SigningAlgorithm))
  \o WIf(~secret.AltNames.nil, "alt_names", SetPtr(secret.AltNames))
  \o W("expiration_date", DateTimeToString(secret.ExpirationDate))
  \o W("issuer", SetPtr(secret.Issuer))
  \o W("serial_number", SetPtr(secret.SerialNumber))
  \o WIf(~secret.Validity.ptrNil, "validity",
         M(<<CertificateValidityToMap(secret.Validity)>>))
  \o W("certificate", SetPtr(secret.Certificate))
  \o W("intermediate", SetPtr(secret.Intermediate))
  \o W("private_key", SetPtr(secret.PrivateKey))

\* the fields of the local record
Fields ==
  {"secret_id", "instance_id", "region", "created_by", "created_at", "crn",
   "custom_metadata", "version_custom_metadata", "description", "downloaded",
   "labels", "locks_total", "name", "secret_group_id", "secret_type", "state",
   "state_description", "updated_at", "versions_total", "rotation",
   "ttl", "access_groups", "api_key_id", "service_id", "service_id_is_static",
   "reuse_api_key", "next_rotation_date", "api_key",
   "common_name", "issuance_info", "key_algorithm", "ca", "dns", "bundle_certs",
   "signing_algorithm", "alt_names", "expiration_date", "issuer",
   "serial_number", "validity", "certificate", "intermediate", "private_key"}

\* the local record after a sequence of d.Set calls
RECURSIVE ApplyWrites(_, _)
ApplyWrites(attrs, ws) ==
  IF ws = <<>> THEN attrs
  ELSE ApplyWrites([attrs EXCEPT ![Head(ws).f] = Head(ws).v], Tail(ws))

(* ---------------------------------------------------------------------- *)
(* Secret Mapper, configuration -> prototype                              *)
(* ---------------------------------------------------------------------- *)
\* d.GetOk(key): the field holds something else than its zero value
GetOk(attrs, key) == attrs[key] # Z

\* a key of a nested block as d.Get returns it: every key of the nested
\* schema is there, an unset one with its zero value
BlockGet(modelMap, key) ==
  IF \E e \in modelMap : e.k = key
  THEN (CHOOSE e \in modelMap : e.k = key).v ELSE Z

\* an element of a list of nested blocks that is nil: the block is there
\* and none of its attributes exists
NilBlock == {Entry("nil", Z)}

\* "d.Get("rotation").([]interface{})[0].(map[string]interface{})" of a
\* list whose element is nil: the type assertion panics
RotationElementPanics(list) == Len(list) > 0 /\ list[1] = NilBlock

\* resourceIbmSmIamCredentialsSecretMapToRotationPolicy and
\* resourceIbmSmPublicCertificateMapToRotationPolicy (the same body)
MapToRotationPolicy(modelMap) ==
  {Entry("auto_rotate", B(BlockGet(modelMap, "auto_rotate").b)),
   Entry("interval", N(BlockGet(modelMap, "interval").n)),
   Entry("rotate_keys", B(BlockGet(modelMap, "rotate_keys").b))}
  \cup (IF BlockGet(modelMap, "unit").s # <<>>
        THEN {Entry("unit", S(BlockGet(modelMap, "unit").s))} ELSE {})

\* the "for i, v := range list { parsed[i] = fmt.Sprint(v) }" loops
SprintAll(list) == [i \in 1..Len(list) |-> list[i]]

PIf(attrs, key, name, val) == IF GetOk(attrs, key) THEN {Entry(name, val)} ELSE {}

\* resourceIbmSmIamCredentialsSecretMapToSecretPrototype
IamMapToSecretPrototype(a) ==
  {Entry("SecretType", S(<<"iam_credentials">>))}
  \cup PIf(a, "name", "Name", S(a["name"].s))
  \cup PIf(a, "description", "Description", S(a["description"].s))
  \cup PIf(a, "secret_group_id", "SecretGroupID", S(a["secret_group_id"].s))
  \cup PIf(a, "labels", "Labels", L(SprintAll(a["labels"].l)))
  \cup PIf(a, "ttl", "TTL", S(a["ttl"].s))
  \cup PIf(a, "access_groups", "AccessGroups", L(SprintAll(a["access_groups"].l)))
  \cup PIf(a, "service_id", "ServiceID", S(a["service_id"].s))
  \cup {Entry("ReuseApiKey", B(a["reuse_api_key"].b))}
  \cup PIf(a, "rotation", "Rotation", M(<<MapToRotationPolicy(a["rotation"].m[1])>>))
  \cup PIf(a, "custom_metadata", "CustomMetadata", L(a["custom_metadata"].l))
  \cup PIf(a, "version_custom_metadata", "VersionCustomMetadata",
           L(a["version_custom_metadata"].l))

\* resourceIbmSmPublicCertificateMapToSecretPrototype
CertMapToSecretPrototype(a) ==
  {Entry("SecretType", S(<<"public_cert">>))}
  \cup PIf(a, "name", "Name", S(a["name"].s))
  \cup PIf(a, "description", "Description", S(a["description"].s))
  \cup PIf(a, "secret_group_id", "SecretGroupID", S(a["secret_group_id"].s))
  \cup PIf(a, "labels", "Labels", L(SprintAll(a["labels"].l)))
  \cup PIf(a, "common_name", "CommonName", S(a["common_name"].s))
  \cup PIf(a, "alt_names", "AltNames", L(SprintAll(a["alt_names"].l)))
  \cup PIf(a, "key_algorithm", "KeyAlgorithm", S(a["key_algorithm"].s))
  \cup PIf(a, "ca", "Ca", S(a["ca"].s))
  \cup PIf(a, "dns", "Dns", S(a["dns"].s))
  \cup PIf(a, "bundle_certs", "BundleCerts", B(a["bundle_certs"].b))
  \cup PIf(a, "rotation", "Rotation", M(<<MapToRotationPolicy(a["rotation"].m[1])>>))
  \cup PIf(a, "custom_metadata", "CustomMetadata", L(a["custom_metadata"].l))
  \cup PIf(a, "version_custom_metadata", "VersionCustomMetadata",
           L(a["version_custom_metadata"].l))

\* MapToSecretPrototype panics on its way: the rotation is read (GetOk) and
\* its element is nil
PrototypePanics(a) ==
  GetOk(a, "rotation") /\ RotationElementPanics(a["rotation"].m)

MapToSecretPrototype(k, a) ==
  IF k = "iam_credentials" THEN IamMapToSecretPrototype(a)
  ELSE CertMapToSecretPrototype(a)

(* ---------------------------------------------------------------------- *)
(* The configuration the host runtime hands to Create                     *)
(* ---------------------------------------------------------------------- *)
Variants == {"required", "all"}

NoFields == [f \in Fields |-> Z]

Config(k, variant) ==
  LET common ==
        W("name", S(<<"name", "0">>)) \o W("instance_id", S(<<"i", "1">>))
        \o WIf(variant = "all", "description", S(<<"description", "0">>))
        \o WIf(variant = "all", "labels", L(<<<<"label">>>>))
        \o WIf(variant = "all", "custom_metadata", L(<<<<"meta", "0">>>>))
        \o WIf(variant = "all", "rotation",
               M(<<{Entry("auto_rotate", B(TRUE)), Entry("interval", N(1)),
                    Entry("unit", S(<<"day">>))}>>))
      iam ==
        W("ttl", S(<<"ttl", "0">>)) \o W("reuse_api_key", B(variant = "all"))
        \o WIf(variant = "all", "access_groups", L(<<<<"group">>>>))
      crt ==
        W("common_name", S(<<"example.com">>)) \o W("ca", S(<<"ca">>))
        \o W("dns", S(<<"dns">>)) \o W("key_algorithm", S(<<"RSA2048">>))
        \o W("bundle_certs", B(TRUE))
        \o WIf(variant = "all", "alt_names", L(<<<<"alt.example.com">>>>))
  IN ApplyWrites(NoFields, common \o (IF k = "iam_credentials" THEN iam ELSE crt))

(* ---------------------------------------------------------------------- *)
(* Provisioning waiter                                                     *)
(* ---------------------------------------------------------------------- *)
\* Pending without its one label
PendingEmpty == {}

\* Target with a second label
TargetWithSuspended == {<<"active">>, <<"suspended">>}

\* StateChangeConf.Pending and StateChangeConf.Target
Pending == {<<"pre_activation">>}
Target == {<<"active">>}

\* failStates without its one label
failStatesEmpty == {}

\* failStates of the Refresh closure
failStates == {<<"destroyed">>}

\* the Refresh closure: (result, state, error) for one GetSecret response.
\* The type assertion on the result comes before the error check, and it
\* panics on the nil result that goes with an error.
Refresh(resp) ==
  IF resp.result = NoRecord
  THEN [panic |-> TRUE, res |-> NoRecord, state |-> <<>>, err |-> "none"]
  ELSE IF resp.err
  THEN IF resp.status = 404
       THEN [panic |-> FALSE, res |-> NoRecord, state |-> <<>>, err |-> "not_found"]
       ELSE [panic |-> FALSE, res |-> NoRecord, state |-> <<>>, err |-> "transport"]
  ELSE IF resp.result.StateDescription.v.s \in failStates
  THEN [panic |-> FALSE, res |-> resp.result,
        state |-> resp.result.StateDescription.v.s, err |-> "failed"]
  ELSE [panic |-> FALSE, res |-> resp.result,
        state |-> resp.result.StateDescription.v.s, err |-> "none"]

\* Classify that loses the result on success
ClassifyDropsRecord(r) ==
  IF r.err # "none" THEN [done |-> TRUE, outcome |-> r.err, record |-> r.res]
  ELSE IF r.state \in Target
  THEN [done |-> TRUE, outcome |-> "success", record |-> NoRecord]
  ELSE IF r.state \in Pending
  THEN [done |-> FALSE, outcome |-> "pending", record |-> r.res]
  ELSE [done |-> TRUE, outcome |-> "unexpected_state", record |-> r.res]

\* Classify that takes every state that is not pending for the target
ClassifyOpen(r) ==
  IF r.err # "none" THEN [done |-> TRUE, outcome |-> r.err, record |-> r.res]
  ELSE IF r.state \in Pending
  THEN [done |-> FALSE, outcome |-> "pending", record |-> r.res]
  ELSE [done |-> TRUE, outcome |-> "success", record |-> r.res]

\* what WaitForState does with one Refresh result: it ends with the error of
\* Refresh, ends with success on a Target state, goes on polling on a Pending
\* state, and ends with an unexpected-state error on any other state
Classify(r) ==
  IF r.err # "none" THEN [done |-> TRUE, outcome |-> r.err, record |-> r.res]
  ELSE IF r.state \in Target
  THEN [done |-> TRUE, outcome |-> "success", record |-> r.res]
  ELSE IF r.state \in Pending
  THEN [done |-> FALSE, outcome |-> "pending", record |-> r.res]
  ELSE [done |-> TRUE, outcome |-> "unexpected_state", record |-> r.res]

NoWait == [outcome |-> "none", record |-> NoRecord]
NoResp == [result |-> NoRecord, status |-> 0, err |-> FALSE]

\* the entry of pollLog for a response
Seen(resp) ==
  [status |-> resp.status,
   label |-> IF resp.result = NoRecord THEN <<>>
             ELSE resp.result.StateDescription.v.s]

\* an entry of events: what was done, the identifier it was done with, for
\* a remote call the status of the response (0: no response) and the
\* request body
EvBody(name, id, status, body) ==
  [e |-> name, id |-> id, status |-> status, body |-> body]
Ev(name, id, status) == EvBody(name, id, status, {})

\* the entry of events for a Get of Read: the body holds the record that the
\* Get fetched
Got(id, resp) ==
  EvBody("get", id, resp.status, IF resp.err THEN {} ELSE {resp.result})

\* no Secret Mapper function called alone
NoCall == [fn |-> "none"]

\* no second invocation
NoInvocation == [pc |-> "none"]

(* ---------------------------------------------------------------------- *)
(* Lifecycle Controller                                                    *)
(* ---------------------------------------------------------------------- *)
Init ==
  /\ kind \in Kinds
  /\ pc = "idle"
  /\ op = "none"
  /\ d \in {[id |-> <<>>, attrs |-> Config(kind, v)] : v \in Variants}
  /\ target = <<>>
  /\ polls = 0
  /\ pollLog = <<>>
  /\ lastResp = NoResp
  /\ waitRes = NoWait
  /\ events = <<>>
  /\ ret = "none"
  /\ ops = 0
  /\ call = NoCall
  /\ other = NoInvocation

\* AfterCreateSecret that sets the identity before it looks at the error
AfterCreateSecretEarlyId(dd, created, key, sid) ==
  [id |-> key, attrs |-> IF created
                         THEN [dd.attrs EXCEPT !["secret_id"] = S(sid)]
                         ELSE dd.attrs]

\* the local record when CreateSecretWithContext has returned: Create
\* returns on an error, else d.SetId(key) and d.Set("secret_id", *secret.ID)
AfterCreateSecret(dd, created, key, sid) ==
  IF ~created THEN dd
  ELSE [id |-> key, attrs |-> [dd.attrs EXCEPT !["secret_id"] = S(sid)]]

\* StartWait that goes to Read without waiting
SkipWait(id) ==
  IF Len(id) < 3 THEN [pc |-> "crashed", target |-> <<>>]
  ELSE [pc |-> "reading", target |-> id[3]]

\* StartWait that takes the second segment of the key
StartWaitWrongSegment(id) ==
  IF Len(id) < 3 THEN [pc |-> "crashed", target |-> <<>>]
  ELSE [pc |-> "waiting", target |-> id[2]]

\* where Create goes once the identity is set: into the waiter, which takes
\* the third segment of the key as the ID of its getSecretOptions
StartWait(id) ==
  IF Len(id) < 3 THEN [pc |-> "crashed", target |-> <<>>]
  ELSE [pc |-> "waiting", target |-> id[3]]

\* resourceIbm...Create up to WaitForState: the prototype, the remote create
\* call, the identity, the start of the waiter
CreateCall(region, created, sid) ==
  LET instanceId == d.attrs["instance_id"].s
      proto == MapToSecretPrototype(kind, d.attrs)
      newId == Sprintf3(region, instanceId, sid)
      wait == StartWait(Split(newId))
  IN /\ pc = "idle" /\ d.id = <<>> /\ ops < MaxOps
     /\ ops' = ops + 1
     /\ op' = "create"
     /\ polls' = 0 /\ pollLog' = <<>> /\ lastResp' = NoResp /\ waitRes' = NoWait
     /\ UNCHANGED <<kind, call, other>>
     /\ d' = IF PrototypePanics(d.attrs) THEN d
             ELSE AfterCreateSecret(d, created, newId, sid)
     /\ IF PrototypePanics(d.attrs)
        THEN /\ events' = <<Ev("prototype", <<>>, 0)>>
             /\ pc' = "crashed" /\ ret' = "panic"
             /\ UNCHANGED target
        ELSE IF ~created
        THEN /\ events' = <<Ev("prototype", <<>>, 0),
                            EvBody("create", <<>>, 500, proto)>>
             /\ ret' = "error_create"
             /\ UNCHANGED <<pc, target>>
        ELSE /\ events' = <<Ev("prototype", <<>>, 0),
                            EvBody("create", sid, 201, proto),
                            Ev("setid", newId, 0)>>
             /\ pc' = wait.pc
             /\ target' = wait.target
             /\ ret' = IF wait.pc = "crashed" THEN "panic" ELSE "running"

Create == \E region \in Regions, created \in BOOLEAN :
            CreateCall(region, created, NewSecretId(ops + 1))

\* PollStep after which Create clears the identity when the waiter has
\* returned an error
PollStepClearsId(resp) ==
  LET r == Refresh(resp)
      c == Classify(r)
  IN /\ pc = "waiting" /\ polls < MaxPolls
     /\ polls' = polls + 1
     /\ pollLog' = Append(pollLog, Seen(resp))
     /\ lastResp' = resp
     /\ events' = Append(events, Ev("poll", target, resp.status))
     /\ UNCHANGED <<kind, op, target, ops, call, other>>
     /\ d' = IF ~r.panic /\ c.done /\ c.outcome # "success"
             THEN [d EXCEPT !.id = <<>>] ELSE d
     /\ IF r.panic
        THEN pc' = "crashed" /\ ret' = "panic" /\ UNCHANGED waitRes
        ELSE IF ~c.done
        THEN UNCHANGED <<pc, ret, waitRes>>
        ELSE /\ waitRes' = [outcome |-> c.outcome, record |-> c.record]
             /\ IF c.outcome = "success"
                THEN pc' = "reading" /\ UNCHANGED ret
                ELSE pc' = "idle" /\ ret' = "error_wait"

\* PollStep that writes the state it has seen to the local record
PollStepWritesState(resp) ==
  LET r == Refresh(resp)
      c == Classify(r)
  IN /\ pc = "waiting" /\ polls < MaxPolls
     /\ polls' = polls + 1
     /\ pollLog' = Append(pollLog, Seen(resp))
     /\ lastResp' = resp
     /\ events' = Append(events, Ev("poll", target, resp.status))
     /\ UNCHANGED <<kind, op, target, ops, call, other>>
     /\ d' = IF r.panic THEN d
             ELSE [d EXCEPT !.attrs["state_description"] = S(r.state)]
     /\ IF r.panic
        THEN pc' = "crashed" /\ ret' = "panic" /\ UNCHANGED waitRes
        ELSE IF ~c.done
        THEN UNCHANGED <<pc, ret, waitRes>>
        ELSE /\ waitRes' = [outcome |-> c.outcome, record |-> c.record]
             /\ IF c.outcome = "success"
                THEN pc' = "reading" /\ UNCHANGED ret
                ELSE pc' = "idle" /\ ret' = "error_wait"

\* one Refresh of WaitForState and what WaitForState does with its result
PollStep(resp) ==
  LET r == Refresh(resp)
      c == Classify(r)
  IN /\ pc = "waiting" /\ polls < MaxPolls
     /\ polls' = polls + 1
     /\ pollLog' = Append(pollLog, Seen(resp))
     /\ lastResp' = resp
     /\ events' = Append(events, Ev("poll", target, resp.status))
     /\ UNCHANGED <<kind, op, d, target, ops, call, other>>
     /\ IF r.panic
        THEN pc' = "crashed" /\ ret' = "panic" /\ UNCHANGED waitRes
        ELSE IF ~c.done
        THEN UNCHANGED <<pc, ret, waitRes>>
        ELSE /\ waitRes' = [outcome |-> c.outcome, record |-> c.record]
             /\ IF c.outcome = "success"
                THEN pc' = "reading" /\ UNCHANGED ret
                ELSE pc' = "idle" /\ ret' = "error_wait"

Poll ==
  \/ \E label \in Labels, rev \in Revs, shape \in Shapes :
       PollStep(GetOk200(kind, target, label, rev, shape))
  \/ \E status \in ErrorStatuses : PollStep(GetError(status))

\* StateChangeConf.Timeout elapses while WaitForState is still polling
WaitTimeout ==
  /\ pc = "waiting"
  /\ waitRes' = [outcome |-> "timeout", record |-> NoRecord]
  /\ pc' = "idle"
  /\ ret' = "error_wait"
  /\ UNCHANGED <<kind, op, d, target, polls, pollLog, lastResp, events, ops,
                 call, other>>

\* IsNotFound that knows no 404
IsNotFoundNever(resp) == FALSE

\* IsNotFound that takes every error status for a 404
IsNotFoundAnyStatus(resp) == resp.status # 0 /\ resp.status >= 400

\* "response != nil && response.StatusCode == 404" of Read
IsNotFound(resp) == resp.status # 0 /\ resp.status = 404

\* ReadBody that takes the record the waiter returned, when there is one, in
\* place of the record of its own Get
ReadBodyFromWaiter(resp, before) ==
  LET id == Split(d.id)
      secret == IF waitRes.record # NoRecord /\ ~resp.err
                THEN waitRes.record ELSE resp.result
      head == IF kind = "iam_credentials" THEN IamWritesHead(secret, id)
              ELSE CertWritesHead(secret, id)
      tail == IF kind = "iam_credentials" THEN IamWritesTail(secret)
              ELSE CertWritesTail(secret)
  IN IF Len(id) < 3
     THEN pc' = "crashed" /\ ret' = "panic" /\ events' = before /\ UNCHANGED d
     ELSE /\ events' = Append(before, Got(id[3], resp))
          /\ IF resp.err
             THEN /\ pc' = "idle"
                  /\ IF IsNotFound(resp)
                     THEN d' = [d EXCEPT !.id = <<>>] /\ ret' = "ok"
                     ELSE UNCHANGED d /\ ret' = "error_get"
             ELSE IF secret.Rotation.intfNil
             THEN /\ pc' = "crashed" /\ ret' = "panic"
                  /\ d' = [d EXCEPT !.attrs = ApplyWrites(d.attrs, head)]
             ELSE /\ pc' = "idle" /\ ret' = "ok"
                  /\ d' = [d EXCEPT !.attrs = ApplyWrites(d.attrs, head \o tail)]

\* resourceIbm...Read: the key, one GetSecretWithContext, the field updates
ReadBody(resp, before) ==
  LET id == Split(d.id)
      secret == resp.result
      head == IF kind = "iam_credentials" THEN IamWritesHead(secret, id)
              ELSE CertWritesHead(secret, id)
      tail == IF kind = "iam_credentials" THEN IamWritesTail(secret)
              ELSE CertWritesTail(secret)
  IN IF Len(id) < 3
     THEN pc' = "crashed" /\ ret' = "panic" /\ events' = before /\ UNCHANGED d
     ELSE /\ events' = Append(before, Got(id[3], resp))
          /\ IF resp.err
             THEN /\ pc' = "idle"
                  /\ IF IsNotFound(resp)
                     THEN d' = [d EXCEPT !.id = <<>>] /\ ret' = "ok"
                     ELSE UNCHANGED d /\ ret' = "error_get"
             ELSE IF secret.Rotation.intfNil
             THEN /\ pc' = "crashed" /\ ret' = "panic"
                  /\ d' = [d EXCEPT !.attrs = ApplyWrites(d.attrs, head)]
             ELSE /\ pc' = "idle" /\ ret' = "ok"
                  /\ d' = [d EXCEPT !.attrs = ApplyWrites(d.attrs, head \o tail)]

\* the Read that Create ends with; what Create returns is what this Read
\* returns, and the waiter's variables are gone with the return
CreateRead ==
  /\ pc = "reading" /\ op = "create"
  /\ \/ \E label \in Labels, rev \in Revs, shape \in Shapes :
          ReadBody(GetOk200(kind, Split(d.id)[3], label, rev, shape), events)
     \/ \E status \in ErrorStatuses : ReadBody(GetError(status), events)
  /\ polls' = 0 /\ pollLog' = <<>> /\ lastResp' = NoResp /\ waitRes' = NoWait
  /\ target' = <<>>
  /\ UNCHANGED <<kind, op, ops, call, other>>

\* the Read the host runtime calls on a record that has an identity
Read ==
  /\ pc = "idle" /\ d.id # <<>> /\ ops < MaxOps
  /\ ops' = ops + 1
  /\ op' = "read"
  /\ polls' = 0 /\ pollLog' = <<>> /\ lastResp' = NoResp /\ waitRes' = NoWait
  /\ target' = <<>>
  /\ \/ \E label \in Labels, rev \in Revs, shape \in Shapes :
          ReadBody(GetOk200(kind, Split(d.id)[3], label, rev, shape), <<>>)
     \/ \E status \in ErrorStatuses : ReadBody(GetError(status), <<>>)
  /\ UNCHANGED <<kind, call, other>>

(* ---------------------------------------------------------------------- *)
(* Update, Delete and Read on a record that exists                         *)
(* ---------------------------------------------------------------------- *)
\* the fields resourceIbm...Update asks d.HasChange about
TrackedFields(k) ==
  {"name", "description", "labels", "custom_metadata", "rotation"}
  \cup (IF k = "iam_credentials" THEN {"ttl"} ELSE {})

\* HasChange that says yes for every field
HasChangeAlways(old, new, key) == TRUE

\* d.HasChange(key): the planned value is not the value of the last-known
\* state
HasChange(old, new, key) == old[key] # new[key]

PatchIf(old, new, key, name, val) ==
  IF HasChange(old, new, key) THEN {Entry(name, val)} ELSE {}

\* patchVals of resourceIbm...Update (the TTL is in the patch of the IAM
\* credentials only)
PatchVals(k, old, new) ==
  PatchIf(old, new, "name", "Name", S(new["name"].s))
  \cup PatchIf(old, new, "description", "Description", S(new["description"].s))
  \cup PatchIf(old, new, "labels", "Labels", L(SprintAll(new["labels"].l)))
  \cup PatchIf(old, new, "custom_metadata", "CustomMetadata",
               L(new["custom_metadata"].l))
  \cup (IF k = "iam_credentials"
        THEN PatchIf(old, new, "ttl", "TTL", S(new["ttl"].s)) ELSE {})
  \cup PatchIf(old, new, "rotation", "Rotation",
               M(<<MapToRotationPolicy(new["rotation"].m[1])>>))

\* d.Get("rotation").([]interface{})[0] of a list without an element
RotationIndexPanics(old, new) ==
  HasChange(old, new, "rotation") /\ Len(new["rotation"].m) = 0

\* ... or of a list whose element is nil
RotationAssertPanics(old, new) ==
  HasChange(old, new, "rotation") /\ RotationElementPanics(new["rotation"].m)

\* patchVals.AsPatch(): the JSON form of the patch; a slice or a map without
\* an element is left out (omitempty), a pointer to an empty string is not
AsPatch(patchVals) ==
  {e \in patchVals : ~(e.k \in {"Labels", "CustomMetadata"} /\ e.v.l = <<>>)}

\* the responses of UpdateSecretMetadataWithContext and of
\* DeleteSecretWithContext (0: no response)
UpdateStatuses == {200, 400, 0}
DeleteStatuses == {204, 404, 500, 0}

\* the planned values the host runtime hands to Update: the last-known state
\* with the fields of `changed` replaced, or (clear) removed from the
\* configuration where the schema lets them be removed
Clearable == {"description", "labels", "custom_metadata"}

NewValue(f) ==
  CASE f = "labels" -> L(<<<<"label">>, <<"label", "9">>>>)
    [] f = "custom_metadata" -> L(<<<<"meta", "9">>>>)
    [] f = "rotation" ->
         M(<<{Entry("auto_rotate", B(FALSE)), Entry("interval", N(3)),
              Entry("unit", S(<<"month">>)), Entry("rotate_keys", B(TRUE))}>>)
    [] OTHER -> S(<<f, "9">>)

Plan(old, changed, clear) ==
  [f \in Fields |->
     IF f \notin changed THEN old[f]
     ELSE IF clear /\ f \in Clearable THEN Z
     ELSE NewValue(f)]

\* the entry of events for the call of Update: the fields whose planned
\* value is not that of the last-known state, with the planned value
Called(old, cfg) ==
  EvBody("update", <<>>, 0,
         {Entry(f, cfg[f]) : f \in {g \in Fields : cfg[g] # old[g]}})

\* UpdateCall that goes on to its Read when the update call has failed
UpdateCallReadsAfterError(cfg, status) ==
  LET id == Split(d.id)
      old == d.attrs
      hasChange == \E f \in TrackedFields(kind) : HasChange(old, cfg, f)
      called == Called(old, cfg)
  IN /\ pc = "idle" /\ d.id # <<>> /\ op = "none"
     /\ ops' = ops + 1
     /\ op' = "update"
     /\ d' = [d EXCEPT !.attrs = cfg]
     /\ UNCHANGED <<kind, target, polls, pollLog, lastResp, waitRes, call, other>>
     /\ pc' = "reading" /\ ret' = "running"
     /\ events' = IF hasChange
                  THEN <<called, EvBody("patch", id[3], status,
                                        AsPatch(PatchVals(kind, old, cfg)))>>
                  ELSE <<called>>

\* resourceIbm...Update up to its Read: the key, the patch, one
\* UpdateSecretMetadataWithContext when a tracked field has changed
UpdateCall(cfg, status) ==
  LET id == Split(d.id)
      old == d.attrs
      hasChange == \E f \in TrackedFields(kind) : HasChange(old, cfg, f)
      called == Called(old, cfg)
  IN /\ pc = "idle" /\ d.id # <<>> /\ op = "none"
     /\ ops' = ops + 1
     /\ op' = "update"
     /\ d' = [d EXCEPT !.attrs = cfg]
     /\ UNCHANGED <<kind, target, polls, pollLog, lastResp, waitRes, call, other>>
     /\ IF \/ Len(id) < 3
           \/ RotationIndexPanics(old, cfg)
           \/ RotationAssertPanics(old, cfg)
        THEN pc' = "crashed" /\ ret' = "panic" /\ events' = <<called>>
        ELSE IF ~hasChange
        THEN pc' = "reading" /\ ret' = "running" /\ events' = <<called>>
        ELSE /\ events' = <<called,
                            EvBody("patch", id[3], status,
                                   AsPatch(PatchVals(kind, old, cfg)))>>
             /\ IF status = 200
                THEN pc' = "reading" /\ ret' = "running"
                ELSE pc' = "idle" /\ ret' = "error_update"

Update == \E changed \in SUBSET TrackedFields(kind), clear \in BOOLEAN,
             status \in UpdateStatuses :
            UpdateCall(Plan(d.attrs, changed, clear), status)

\* the state labels a Get finds on a record that is in use
ManagedLabels == {<<"active">>}

\* the Read that Update ends with
UpdateRead ==
  /\ pc = "reading" /\ op = "update"
  /\ \/ \E label \in ManagedLabels, rev \in Revs, shape \in Shapes :
          ReadBody(GetOk200(kind, Split(d.id)[3], label, rev, shape), events)
     \/ \E status \in ErrorStatuses : ReadBody(GetError(status), events)
  /\ UNCHANGED <<kind, op, ops, target, polls, pollLog, lastResp, waitRes, call, other>>

\* DeleteCall that clears the identity whatever the remote call returned
DeleteCallClearsAlways(status) ==
  LET id == Split(d.id)
  IN /\ pc = "idle" /\ d.id # <<>> /\ op \in {"none", "delete"}
     /\ ops < MaxOps
     /\ ops' = ops + 1
     /\ op' = "delete"
     /\ UNCHANGED <<kind, target, polls, pollLog, lastResp, waitRes, call, other, pc>>
     /\ events' = <<Ev("delete", id[3], status)>>
     /\ ret' = (IF status # 204 THEN "error_delete" ELSE "ok")
     /\ d' = [d EXCEPT !.id = <<>>]

\* DeleteCall that takes a 404 for a secret that is gone, as Read does
DeleteCallAbsentOn404(status) ==
  LET id == Split(d.id)
  IN /\ pc = "idle" /\ d.id # <<>> /\ op \in {"none", "delete"}
     /\ ops < MaxOps
     /\ ops' = ops + 1
     /\ op' = "delete"
     /\ UNCHANGED <<kind, target, polls, pollLog, lastResp, waitRes, call, other>>
     /\ IF Len(id) < 3
        THEN pc' = "crashed" /\ ret' = "panic" /\ events' = <<>> /\ UNCHANGED d
        ELSE /\ events' = <<Ev("delete", id[3], status)>>
             /\ UNCHANGED pc
             /\ IF status \notin {204, 404}
                THEN ret' = "error_delete" /\ UNCHANGED d
                ELSE ret' = "ok" /\ d' = [d EXCEPT !.id = <<>>]

\* resourceIbm...Delete: the key, one DeleteSecretWithContext, d.SetId("")
DeleteCall(status) ==
  LET id == Split(d.id)
  IN /\ pc = "idle" /\ d.id # <<>> /\ op \in {"none", "delete"}
     /\ ops < MaxOps
     /\ ops' = ops + 1
     /\ op' = "delete"
     /\ UNCHANGED <<kind, target, polls, pollLog, lastResp, waitRes, call, other>>
     /\ IF Len(id) < 3
        THEN pc' = "crashed" /\ ret' = "panic" /\ events' = <<>> /\ UNCHANGED d
        ELSE /\ events' = <<Ev("delete", id[3], status)>>
             /\ UNCHANGED pc
             /\ IF status # 204
                THEN ret' = "error_delete" /\ UNCHANGED d
                ELSE ret' = "ok" /\ d' = [d EXCEPT !.id = <<>>]

Delete == \E status \in DeleteStatuses : DeleteCall(status)

Next == Create \/ Poll \/ WaitTimeout \/ CreateRead \/ Read

Spec == Init /\ [][Next]_vars

\* the Timeout of WaitForState is finite: a waiter that is still polling
\* is ended by it at some time
SpecLive == Init /\ [][Next]_vars /\ WF_vars(WaitTimeout)

\* the d.Set calls of Read for a fetched record, in source order
ReadWrites(k, secret, id) ==
  IF k = "iam_credentials"
  THEN IamWritesHead(secret, id) \o IamWritesTail(secret)
  ELSE CertWritesHead(secret, id) \o CertWritesTail(secret)

\* a d.Set whose error Read looks at: every one but that of custom_metadata
SetChecked(f) == f # "custom_metadata"

\* the field that the error of a failed d.Set names ("Error setting ...")
SetErrorName(k, f) ==
  IF k = "iam_credentials" /\ f \in {"ttl", "api_key"}
  THEN "signing_algorithm" ELSE f

Without(ws, i) == SubSeq(ws, 1, i - 1) \o SubSeq(ws, i + 1, Len(ws))

\* resourceIbm...Read in which the i-th d.Set fails (a failed d.Set leaves
\* its field as it was): Read returns at a failure it looks at, and goes on
\* after one it does not look at
ReadSetFails(resp, i) ==
  LET id == Split(d.id)
      secret == resp.result
      ws == ReadWrites(kind, secret, id)
      nHead == Len(IF kind = "iam_credentials" THEN IamWritesHead(secret, id)
                   ELSE CertWritesHead(secret, id))
      stops == SetChecked(ws[i].f)
  IN /\ pc = "idle" /\ d.id # <<>> /\ op = "none"
     /\ Len(id) >= 3
     /\ ops' = ops + 1
     /\ op' = "read"
     /\ UNCHANGED <<kind, target, polls, pollLog, lastResp, waitRes, call, other>>
     /\ IF stops /\ (i <= nHead \/ ~secret.Rotation.intfNil)
        THEN /\ d' = [d EXCEPT !.attrs = ApplyWrites(d.attrs, SubSeq(ws, 1, i - 1))]
             /\ events' = <<Got(id[3], resp),
                            Ev("setfails", <<ws[i].f>>, 0),
                            Ev("seterror", <<SetErrorName(kind, ws[i].f)>>, 0)>>
             /\ pc' = "idle" /\ ret' = "error_set"
        ELSE /\ events' = <<Got(id[3], resp),
                            Ev("setfails", <<ws[i].f>>, 0)>>
             /\ IF secret.Rotation.intfNil
                THEN /\ pc' = "crashed" /\ ret' = "panic"
                     /\ d' = [d EXCEPT !.attrs =
                                ApplyWrites(d.attrs,
                                            IF i <= nHead
                                            THEN Without(SubSeq(ws, 1, nHead), i)
                                            ELSE SubSeq(ws, 1, nHead))]
                ELSE /\ pc' = "idle" /\ ret' = "ok"
                     /\ d' = [d EXCEPT !.attrs =
                                ApplyWrites(d.attrs, Without(ws, i))]

ReadFailing ==
  /\ pc = "idle" /\ d.id # <<>> /\ op = "none"
  /\ \E label \in ManagedLabels, rev \in Revs, shape \in Shapes :
       LET resp == GetOk200(kind, Split(d.id)[3], label, rev, shape)
       IN \E i \in 1..Len(ReadWrites(kind, resp.result, Split(d.id))) :
            ReadSetFails(resp, i)

\* a record as a Create that went through leaves it: the key, and the fields
\* of the configuration with those that its Read has written
ManagedRecord(k, variant, shape) ==
  LET region == CHOOSE r \in Regions : TRUE
      sid == NewSecretId(1)
      key == Sprintf3(region, Config(k, variant)["instance_id"].s, sid)
      secret == RemoteSecret(k, sid, <<"active">>, 1, shape)
  IN [id |-> key,
      attrs |-> ApplyWrites(Config(k, variant),
                            ReadWrites(k, secret, Split(key)))]

InitManaged ==
  /\ kind \in Kinds
  /\ pc = "idle"
  /\ op = "none"
  /\ d \in {ManagedRecord(kind, v, sh) : v \in Variants, sh \in {"full", "sparse"}}
  /\ target = <<>>
  /\ polls = 0
  /\ pollLog = <<>>
  /\ lastResp = NoResp
  /\ waitRes = NoWait
  /\ events = <<>>
  /\ ret = "none"
  /\ ops = 0
  /\ call = NoCall
  /\ other = NoInvocation

NextManaged == Update \/ UpdateRead \/ Delete \/ ReadFailing

SpecManaged == InitManaged /\ [][NextManaged]_vars

(* ---------------------------------------------------------------------- *)
(* Create and Update with a rotation block that is not well formed         *)
(* ---------------------------------------------------------------------- *)
\* the rotation of a configuration that is not well formed: a list without
\* an element, a list whose element is nil
MalformedRotations == {M(<<>>), M(<<NilBlock>>)}

\* a configuration for Create with such a rotation (in Create a list
\* without an element is a rotation that is not set)
MalformedConfig(k) ==
  [Config(k, "required") EXCEPT !["rotation"] = M(<<NilBlock>>)]

\* Update with planned values whose rotation is such a list, for a record
\* that has a rotation
UpdateMalformed ==
  \E changed \in SUBSET (TrackedFields(kind) \ {"rotation"}),
     rotation \in MalformedRotations, status \in UpdateStatuses :
    UpdateCall([Plan(d.attrs, changed, FALSE) EXCEPT !["rotation"] = rotation],
               status)

InitRequests ==
  /\ kind \in Kinds
  /\ pc = "idle"
  /\ op = "none"
  /\ d \in {[id |-> <<>>, attrs |-> Config(kind, v)] : v \in Variants}
          \cup {[id |-> <<>>, attrs |-> MalformedConfig(kind)]}
          \cup {ManagedRecord(kind, v, "full") : v \in Variants}
  /\ target = <<>>
  /\ polls = 0
  /\ pollLog = <<>>
  /\ lastResp = NoResp
  /\ waitRes = NoWait
  /\ events = <<>>
  /\ ret = "none"
  /\ ops = 0
  /\ call = NoCall
  /\ other = NoInvocation

\* (an Update of these never comes to its Read)
NextRequests == Create \/ Poll \/ WaitTimeout \/ CreateRead \/ UpdateMalformed

SpecRequests == InitRequests /\ [][NextRequests]_vars


(* ---------------------------------------------------------------------- *)
(* Two invocations at the same time, for different records                 *)
(* ---------------------------------------------------------------------- *)
\* the invocation that runs: its ResourceData, its local variables, where it
\* stands
Invocation ==
  [kind |-> kind, pc |-> pc, op |-> op, d |-> d, target |-> target,
   polls |-> polls, pollLog |-> pollLog, lastResp |-> lastResp,
   waitRes |-> waitRes, events |-> events, ret |-> ret, ops |-> ops]

\* an invocation that has not begun, for a configuration
Fresh(k, variant) ==
  [kind |-> k, pc |-> "idle", op |-> "none",
   d |-> [id |-> <<>>, attrs |-> Config(k, variant)], target |-> <<>>,
   polls |-> 0, pollLog |-> <<>>, lastResp |-> NoResp, waitRes |-> NoWait,
   events |-> <<>>, ret |-> "none", ops |-> 0]

\* a panic is not recovered in the handlers: it ends the process, and with
\* it an invocation that has begun and has not returned yet
Killed(inv) ==
  IF inv.ret = "running"
  THEN [inv EXCEPT !.pc = "crashed", !.ret = "killed"] ELSE inv

\* the scheduler goes over to the other invocation (to what a panic of the
\* one that ran has left of it)
Switch ==
  LET next == IF pc = "crashed" THEN Killed(other) ELSE other
  IN /\ other.pc # "none"
     /\ other' = Invocation
     /\ kind' = next.kind /\ pc' = next.pc /\ op' = next.op /\ d' = next.d
     /\ target' = next.target /\ polls' = next.polls
     /\ pollLog' = next.pollLog /\ lastResp' = next.lastResp
     /\ waitRes' = next.waitRes /\ events' = next.events /\ ret' = next.ret
     /\ ops' = next.ops
     /\ UNCHANGED call

\* Create up to WaitForState, in a process that lives; the remote service
\* assigns an identifier that no other secret has
CreateAlongside ==
  /\ other.pc # "crashed"
  /\ \E region \in Regions :
       CreateCall(region, TRUE, NewSecretId(ops + other.ops + 1))

\* one Refresh of the waiter, for the answers of a secret that is being
\* activated and for a Get that fails
PollOwn ==
  \/ \E label \in Pending \cup Target :
       PollStep(GetOk200(kind, target, label, 1, "full"))
  \/ PollStep(GetError(500))

\* the Read that Create ends with, for an active secret and for a Get that
\* fails
ReadOwn ==
  /\ pc = "reading" /\ op = "create"
  /\ \/ ReadBody(GetOk200(kind, Split(d.id)[3], <<"active">>, 1, "full"), events)
     \/ ReadBody(GetError(500), events)
  /\ polls' = 0 /\ pollLog' = <<>> /\ lastResp' = NoResp /\ waitRes' = NoWait
  /\ target' = <<>>
  /\ UNCHANGED <<kind, op, ops, call, other>>

InitConcurrent ==
  /\ kind = "iam_credentials"
  /\ pc = "idle"
  /\ op = "none"
  /\ d \in {[id |-> <<>>, attrs |-> Config(kind, v)] : v \in Variants}
  /\ target = <<>>
  /\ polls = 0
  /\ pollLog = <<>>
  /\ lastResp = NoResp
  /\ waitRes = NoWait
  /\ events = <<>>
  /\ ret = "none"
  /\ ops = 0
  /\ call = NoCall
  /\ other \in {Fresh("public_cert", v) : v \in Variants}

NextConcurrent ==
  CreateAlongside \/ PollOwn \/ WaitTimeout \/ ReadOwn \/ Switch

SpecConcurrent == InitConcurrent /\ [][NextConcurrent]_vars

(* ---------------------------------------------------------------------- *)
(* The functions of the Secret Mapper alone                                *)
(* ---------------------------------------------------------------------- *)
\* segments of a key: one to MaxSeg tokens, none of them the separator
MaxSeg == 2
SegTokens == {"a", "b"}
Segments == UNION {[1..n -> SegTokens] : n \in 1..MaxSeg}

\* the key as Create composes it (fmt.Sprintf) and as Read, Update, Delete
\* and the waiter take it apart (strings.Split)
KeyCall(region, instanceId, secretId) ==
  /\ call = NoCall
  /\ other = NoInvocation
  /\ call' = [fn |-> "key", arg |-> <<region, instanceId, secretId>>,
              key |-> Sprintf3(region, instanceId, secretId),
              res |-> Split(Sprintf3(region, instanceId, secretId))]
  /\ UNCHANGED <<kind, pc, op, d, target, polls, pollLog, lastResp, waitRes,
                 events, ret, ops, other>>

ComposeAndSplit ==
  \E region \in Segments, instanceId \in Segments, secretId \in Segments :
    KeyCall(region, instanceId, secretId)

\* the field updates of Read for a fetched record (on a record without
\* fields), and the prototype that MapToSecretPrototype makes of the result
FromRemoteToPrototype ==
  \E label \in Labels, rev \in Revs, shape \in Shapes,
     region \in Regions, instanceId \in InstanceIds :
    LET sid == NewSecretId(1)
        secret == RemoteSecret(kind, sid, label, rev, shape)
        id == Split(Sprintf3(region, instanceId, sid))
        attrs == ApplyWrites(NoFields, ReadWrites(kind, secret, id))
    IN /\ call = NoCall
       /\ call' = IF secret.Rotation.intfNil
                  THEN [fn |-> "roundtrip", record |-> secret, panic |-> TRUE,
                        attrs |-> NoFields, proto |-> {}]
                  ELSE [fn |-> "roundtrip", record |-> secret, panic |-> FALSE,
                        attrs |-> attrs,
                        proto |-> MapToSecretPrototype(kind, attrs)]
       /\ UNCHANGED <<kind, pc, op, d, target, polls, pollLog, lastResp,
                      waitRes, events, ret, ops, other>>

\* the fields of the schema that the configuration must set, and those it
\* may set, among the fields MapToSecretPrototype reads
RequiredFields(k) ==
  IF k = "iam_credentials" THEN {"name", "ttl", "reuse_api_key"}
  ELSE {"name", "common_name", "ca", "dns"}

OptionalFields(k) ==
  {"description", "secret_group_id", "labels", "rotation", "custom_metadata",
   "version_custom_metadata"}
  \cup (IF k = "iam_credentials" THEN {"access_groups", "service_id"}
        ELSE {"alt_names", "key_algorithm", "bundle_certs"})

\* the optional fields a configuration can set to "" or false
ExplicitZero == {"description", "bundle_certs"}

\* Default of the schema
Default(k, f) ==
  IF k = "public_cert" /\ f = "bundle_certs" THEN B(TRUE)
  ELSE IF k = "public_cert" /\ f = "key_algorithm" THEN S(<<"RSA2048">>)
  ELSE Z

\* a value of the configuration for a field that is set
ConfigValue(k, f) ==
  CASE f = "secret_group_id" -> S(<<"default">>)
    [] f = "service_id" -> S(<<"service">>)
    [] f = "version_custom_metadata" -> L(<<<<"vmeta", "0">>>>)
    [] OTHER -> Config(k, "all")[f]

\* d as the host runtime makes it of a configuration: a field that is set
\* holds its value (zero: "" or false), one that is not holds its Default
ConfigOf(k, present, zero, reuse) ==
  [f \in Fields |->
     IF f = "reuse_api_key" /\ f \in RequiredFields(k) THEN B(reuse)
     ELSE IF f \in RequiredFields(k) THEN ConfigValue(k, f)
     ELSE IF f \notin present THEN Default(k, f)
     ELSE IF zero /\ f \in ExplicitZero THEN Z
     ELSE ConfigValue(k, f)]

\* MapToSecretPrototype of a configuration
ToPrototype ==
  \E present \in SUBSET OptionalFields(kind), zero \in BOOLEAN,
     reuse \in BOOLEAN :
    LET attrs == ConfigOf(kind, present, zero, reuse)
    IN /\ call = NoCall
       /\ kind = "public_cert" => reuse
       /\ call' = [fn |-> "prototype",
                   present |-> present \cup RequiredFields(kind),
                   attrs |-> attrs,
                   proto |-> MapToSecretPrototype(kind, attrs)]
       /\ UNCHANGED <<kind, pc, op, d, target, polls, pollLog, lastResp,
                      waitRes, events, ret, ops, other>>

\* elements of the Challenges of a CertificateIssuanceInfo at the most
MaxChallenges == 2

\* a CertificateIssuanceInfo whose Challenges is nil, or a slice of n
\* elements (n = 0: the slice that "challenges": [] is decoded to)
IssuanceInfoWith(rev, shape, isNil, n) ==
  [RemoteIssuanceInfo(<<"active">>, rev, shape) EXCEPT
     !.ptrNil = FALSE,
     !.challengesNil = isNil,
     !.Challenges = [i \in 1..n |-> RemoteChallenge(i, rev)]]

\* resourceIbmSmPublicCertificateCertificateIssuanceInfoToMap of an issuance
\* info
IssuanceInfoToMap ==
  \E rev \in Revs, shape \in Shapes, isNil \in BOOLEAN, n \in 0..MaxChallenges :
    LET model == IssuanceInfoWith(rev, shape, isNil, n)
    IN /\ call = NoCall
       /\ kind = "public_cert"
       /\ isNil => n = 0
       /\ call' = [fn |-> "issuance", model |-> model,
                   res |-> CertificateIssuanceInfoToMap(model)]
       /\ UNCHANGED <<kind, pc, op, d, target, polls, pollLog, lastResp,
                      waitRes, events, ret, ops, other>>

\* a rotation policy of the remote model with the members of `present` set
RotationMembers == {"AutoRotate", "Interval", "Unit", "RotateKeys"}

RotationWith(rev, present) ==
  LET full == RemoteRotation(rev, "full")
  IN [intfNil |-> FALSE,
      AutoRotate |-> IF "AutoRotate" \in present THEN full.AutoRotate ELSE Nil,
      Interval |-> IF "Interval" \in present THEN full.Interval ELSE Nil,
      Unit |-> IF "Unit" \in present THEN full.Unit ELSE Nil,
      RotateKeys |-> IF "RotateKeys" \in present THEN full.RotateKeys ELSE Nil]

\* the local rotation before a Read: none, or the block of the
\* configuration
LocalRotations == {Z, Config("iam_credentials", "all")["rotation"]}

\* what the Read of each secret type makes of the local rotation, for the
\* same rotation policy in the record fetched
RotationOnRead ==
  \E rev \in Revs, present \in SUBSET RotationMembers, before \in LocalRotations :
    LET policy == RotationWith(rev, present)
        local == [NoFields EXCEPT !["rotation"] = before]
        iam == [RemoteSecret("iam_credentials", NewSecretId(1), <<"active">>,
                             rev, "full") EXCEPT !.Rotation = policy]
        crt == [RemoteSecret("public_cert", NewSecretId(1), <<"active">>,
                             rev, "full") EXCEPT !.Rotation = policy]
    IN /\ call = NoCall
       /\ call' = [fn |-> "rotation", policy |-> policy, before |-> before,
                   iam |-> ApplyWrites(local, IamWritesTail(iam))["rotation"],
                   cert |-> ApplyWrites(local, CertWritesTail(crt))["rotation"]]
       /\ UNCHANGED <<kind, pc, op, d, target, polls, pollLog, lastResp,
                      waitRes, events, ret, ops, other>>

InitMapper ==
  /\ kind \in Kinds
  /\ pc = "idle"
  /\ op = "none"
  /\ d = [id |-> <<>>, attrs |-> NoFields]
  /\ target = <<>>
  /\ polls = 0
  /\ pollLog = <<>>
  /\ lastResp = NoResp
  /\ waitRes = NoWait
  /\ events = <<>>
  /\ ret = "none"
  /\ ops = 0
  /\ call = NoCall
  /\ other = NoInvocation

NextMapper ==
  ComposeAndSplit \/ FromRemoteToPrototype \/ ToPrototype \/ IssuanceInfoToMap
  \/ RotationOnRead

SpecMapper == InitMapper /\ [][NextMapper]_vars

(* ---------------------------------------------------------------------- *)
(* Properties                                                              *)
(* ---------------------------------------------------------------------- *)
LogLabels == {pollLog[i].label : i \in 1..Len(pollLog)}
LastSeen == pollLog[Len(pollLog)]
LastEvent == events[Len(events)]
WaitOver == waitRes.outcome # "none"
AllBeforeLastPending ==
  \A i \in 1..Len(pollLog) - 1 : pollLog[i].label = <<"pre_activation">>

\* C1: the waiter returns success if and only if some poll of it observed
\* the state label "active".
C1_SuccessIffActive ==
  (waitRes.outcome = "success") <=> (<<"active">> \in LogLabels)

C1_Witness ==
  /\ waitRes.outcome = "success" /\ polls >= 2
  /\ <<"active">> \in LogLabels

\* C2: when the polls return n times "pre_activation" and then "active", the
\* waiter has performed exactly n+1 polls (it stops at the poll that saw
\* "active") and returns the record that this last poll fetched.
C2_PollsUntilActive ==
  \A k \in 1..Len(pollLog) :
    (/\ pollLog[k].label = <<"active">>
     /\ \A j \in 1..k - 1 : pollLog[j].label = <<"pre_activation">>)
    => /\ polls = k /\ Len(pollLog) = k
       /\ pc # "waiting"
       /\ waitRes.outcome = "success"
       /\ waitRes.record = lastResp.result
       /\ waitRes.record.StateDescription.v.s = <<"active">>

C2_Witness ==
  /\ polls = 3 /\ waitRes.outcome = "success"
  /\ pollLog[1].label = <<"pre_activation">>
  /\ pollLog[2].label = <<"pre_activation">>
  /\ pollLog[3].label = <<"active">>
  /\ lastResp.result.StateDescription.v.s = <<"active">>

\* C3: a poll that returns "destroyed" is the last poll of the waiter: the
\* waiter ends there with the failure error, also when the deadline has not
\* elapsed.
C3_DestroyedEndsWait ==
  \A k \in 1..Len(pollLog) :
    pollLog[k].label = <<"destroyed">>
    => /\ k = Len(pollLog) /\ polls = k
       /\ pc = "idle"
       /\ waitRes.outcome = "failed"
       /\ ret = "error_wait"

C3_Witness ==
  /\ waitRes.outcome = "failed" /\ polls = 2 /\ polls < MaxPolls
  /\ LastSeen.label = <<"destroyed">>

\* C4 as stated: whenever the waiter has returned and no poll of it saw
\* "active" or "destroyed", what it returned is the timeout error.
C4_TimeoutUnlessActiveOrDestroyed ==
  (WaitOver /\ LogLabels \cap {<<"active">>, <<"destroyed">>} = {})
  => waitRes.outcome = "timeout"

\* C4, amended: the waiter returns the timeout error exactly when the
\* deadline elapses while every poll so far returned "pre_activation"; a
\* wait in which every poll returned "pre_activation" ends in no other way,
\* and the timeout is another outcome than the failure of a "destroyed"
\* state, which is never reported as a timeout.
C4_TimeoutWhenOnlyPending ==
  /\ (WaitOver /\ LogLabels \subseteq {<<"pre_activation">>})
     => waitRes.outcome = "timeout"
  /\ waitRes.outcome = "timeout"
     => /\ LogLabels \subseteq {<<"pre_activation">>}
        /\ ret = "error_wait" /\ pc = "idle"
  /\ <<"destroyed">> \in LogLabels => waitRes.outcome = "failed"

C4_Witness ==
  /\ waitRes.outcome = "timeout" /\ polls >= 2
  /\ LogLabels = {<<"pre_activation">>}

\* C5 as stated: a poll that returns a label other than "pre_activation" and
\* "destroyed" ends the wait with success, as "active" does.
C5_OtherLabelsSucceed ==
  (Len(pollLog) > 0
   /\ LastSeen.label \notin {<<>>, <<"pre_activation">>, <<"destroyed">>})
  => waitRes.outcome = "success"

\* C5, amended: the waiter classifies the label of a poll by closed lists:
\* only "pre_activation" is pending (the wait goes on, or times out), only
\* "active" is success, only "destroyed" is the failure of the Refresh; any
\* other label ("suspended", "deactivated") ends the wait with an
\* unexpected-state error, not with success.
C5_ClosedLists ==
  Len(pollLog) > 0 =>
    /\ AllBeforeLastPending
    /\ LastSeen.label = <<"pre_activation">>
       => waitRes.outcome \in {"none", "timeout"}
    /\ LastSeen.label = <<"active">> => waitRes.outcome = "success"
    /\ LastSeen.label = <<"destroyed">> => waitRes.outcome = "failed"
    /\ LastSeen.label \in {<<"suspended">>, <<"deactivated">>}
       => waitRes.outcome = "unexpected_state" /\ ret = "error_wait"

C5_Witness ==
  /\ Len(pollLog) > 0
  /\ LastSeen.label = <<"suspended">>
  /\ waitRes.outcome = "unexpected_state"

\* C6: a poll that gets a 404 response ends the waiter in the not_found
\* error, which the waiter returns to Create.
C6_NotFoundIsTerminalError ==
  (Len(pollLog) > 0 /\ LastSeen.status = 404)
  => /\ waitRes.outcome = "not_found"
     /\ pc = "idle" /\ ret = "error_wait"

\* the events of a Create so far are a prefix of: prototype, remote create
\* call, composite key, polls of the waiter, Get of Read
CreateEventsInOrder ==
  /\ Len(events) >= 2
  /\ events[1].e = "prototype" /\ events[2].e = "create"
  /\ Len(events) >= 3 => events[3].e = "setid" /\ events[2].status = 201
  /\ \A i \in 4..Len(events) :
       \/ events[i].e = "poll"
       \/ events[i].e = "get" /\ i = Len(events) /\ i > 4
  /\ pc = "waiting" => LastEvent.e \in {"setid", "poll"}
  /\ pc = "reading" => LastEvent.e = "poll" /\ waitRes.outcome = "success"

\* C7: the events of a Create come in the order prototype, remote create
\* call, composite key, polls of the waiter, Get of Read; the Read issues its
\* Get only in a Create whose waiter has returned success.
C7_CreateOrder ==
  /\ [](op = "create" => CreateEventsInOrder)
  /\ [][(op' = "create" /\ events' # events
         /\ events'[Len(events')].e = "get")
        => /\ op = "create" /\ pc = "reading"
           /\ waitRes.outcome = "success"
           /\ <<"active">> \in LogLabels]_vars

C7_Witness ==
  /\ op = "create" /\ ret = "ok" /\ Len(events) >= 6
  /\ LastEvent.e = "get" /\ LastEvent.status = 200

\* C8: a Create whose remote create call fails returns an error, issues no
\* poll and no Read, and leaves the local record as it was: no field written,
\* no identity set.
C8_CreateFailsAtomically ==
  [][(ops' # ops /\ op' = "create" /\ events'[2].status # 201)
     => /\ d' = d /\ d'.id = <<>>
        /\ ret' = "error_create" /\ pc' = "idle"
        /\ polls' = 0 /\ Len(events') = 2]_vars

C8_Witness ==
  /\ op = "create" /\ ret = "error_create"
  /\ Len(events) = 2 /\ events[2].status = 500

\* a step in which a Read got the response of its Get
ReadGot(statuses) ==
  /\ events' # events
  /\ events'[Len(events')].e = "get"
  /\ events'[Len(events')].status \in statuses

\* C9: a Read whose Get answers 404 clears the local identity, returns no
\* error and writes no field. (The witness is the second handler called, a
\* Read of a record whose crn is set: the first was a Create that went
\* through to the end of its own Read.)
C9_Read404ClearsIdentity ==
  [][ReadGot({404})
     => /\ d'.id = <<>> /\ d.id # <<>>
        /\ d'.attrs = d.attrs
        /\ ret' = "ok" /\ pc' = "idle"]_vars

C9_Witness ==
  /\ op = "read" /\ ops = 2 /\ d.attrs["crn"] # Z
  /\ LastEvent.e = "get" /\ LastEvent.status = 404
  /\ ret = "ok" /\ d.id = <<>>

\* C10: a Read whose Get fails otherwise (no response, or a status that is
\* not 404) returns an error and leaves the local record as it was.
C10_ReadErrorSurfaced ==
  [][ReadGot({0, 500})
     => /\ d' = d /\ d'.id # <<>>
        /\ ret' = "error_get" /\ pc' = "idle"]_vars

C10_Witness ==
  /\ op = "read" /\ ret = "error_get"
  /\ LastEvent.e = "get" /\ LastEvent.status = 0
  /\ d.id # <<>>

\* the identifier that the remote create call of the running Create assigned
AssignedId == events[2].id

\* the key of the running Create: region/instanceId/secretId with the
\* assigned identifier
CreatedKey(key) ==
  \E region \in Regions, instanceId \in InstanceIds :
    key = Sprintf3(region, instanceId, AssignedId)

\* the polls of the waiter and the Get of Read went to the assigned
\* identifier, and the key that was set is the composite key
CreateAddressedAssignedId ==
  /\ Len(events) >= 3 /\ events[2].e = "create" /\ events[2].status = 201
  /\ events[3].e = "setid" /\ CreatedKey(events[3].id)
  /\ \A i \in 4..Len(events) :
       events[i].e \in {"poll", "get"} /\ events[i].id = AssignedId
  /\ d.attrs["secret_id"] = S(AssignedId)

\* C15 as stated: after every Create that returns without error the local
\* identity is the composite key with the assigned identifier, the secret_id
\* field is that identifier, and the polls and the Read addressed it.
C15_CreatedIdentity ==
  (op = "create" /\ ret = "ok")
  => CreatedKey(d.id) /\ CreateAddressedAssignedId

\* C15, amended: after every Create that returns without error, the polls of
\* the waiter and the Get of the Read addressed the identifier assigned by
\* the remote create call, the secret_id field is that identifier, and the
\* local identity is the composite key region/instanceId/secretId with it,
\* unless the Get of the Read answered 404: then Create returns without
\* error as well, and the local identity is empty. While the Create runs,
\* from the setting of the key on, the identity is the composite key and the
\* waiter holds the assigned identifier.
C15_CreatedIdentityUnless404 ==
  /\ (op = "create" /\ ret = "ok")
     => /\ CreateAddressedAssignedId
        /\ LastEvent.e = "get"
        /\ LastEvent.status # 404 => CreatedKey(d.id)
        /\ LastEvent.status = 404 => d.id = <<>>
  /\ (op = "create" /\ pc \in {"waiting", "reading"})
     => /\ CreateAddressedAssignedId /\ CreatedKey(d.id)
        /\ pc = "waiting" => target = AssignedId

C15_Witness ==
  /\ op = "create" /\ ret = "ok" /\ ops = 2
  /\ CreatedKey(d.id) /\ AssignedId = NewSecretId(2)
  /\ Len(events) >= 6 /\ events[4].e = "poll" /\ LastEvent.e = "get"
  /\ LastEvent.id = NewSecretId(2)

\* C18: the waiter always terminates: whatever the polls return, it
\* returns at some time one of success, failure (the failure of a
\* "destroyed" state, an unexpected state, a transport error), not_found or
\* timeout to Create.
C18_WaiterReturns ==
  (pc = "waiting")
  ~> (waitRes.outcome \in {"success", "failed", "unexpected_state",
                           "transport", "not_found", "timeout"})

\* C19: a poll that ends in a transport error other than 404 (no response,
\* or a status that is not 404, and no record) ends the waiter in the failed
\* outcome: the waiter returns the error to Create as a value, and there is
\* no further poll.
C19_TransportErrorIsFailure ==
  \A k \in 1..Len(pollLog) :
    pollLog[k].status \in {0, 500}
    => /\ k = Len(pollLog) /\ polls = k
       /\ waitRes.outcome = "transport"
       /\ pc = "idle" /\ ret = "error_wait"

(* ---------------------------------------------------------------------- *)
(* Properties of Update, Delete and Read on a record that exists           *)
(* (SpecManaged)                                                           *)
(* ---------------------------------------------------------------------- *)
\* the remote calls among the events of the running handler
RemoteCalls ==
  {i \in 1..Len(events) : events[i].e \in {"create", "poll", "get", "patch",
                                          "delete"}}

\* the running handler is an Update that was called with no tracked field
\* changed
UpdateNoChange ==
  /\ op = "update" /\ Len(events) >= 1 /\ events[1].e = "update"
  /\ \A e \in events[1].body : e.k \notin TrackedFields(kind)

\* C11 as stated: an Update that is called with none of the tracked fields
\* changed issues no remote call at all.
C11_NoChangeNoRemoteCall == UpdateNoChange => RemoteCalls = {}

\* C11, amended: an Update that is called with none of the tracked fields
\* changed issues no update (patch) call and returns no update error; the
\* one remote call it issues is the Get of the Read it ends with, addressed
\* to the secretId of the key.
C11_NoChangeNoPatch ==
  UpdateNoChange =>
    /\ \A i \in 1..Len(events) : events[i].e # "patch"
    /\ ret # "error_update"
    /\ pc = "reading" => RemoteCalls = {}
    /\ pc # "reading" =>
         /\ RemoteCalls = {2} /\ Len(events) = 2
         /\ events[2].e = "get" /\ events[2].id = NewSecretId(1)

C11_Witness ==
  /\ UpdateNoChange /\ pc = "idle" /\ ret = "ok"
  /\ Len(events) = 2 /\ events[2].e = "get" /\ events[2].status = 200

\* the name a tracked field has in the patch
PatchKey(f) ==
  CASE f = "name" -> "Name"
    [] f = "description" -> "Description"
    [] f = "labels" -> "Labels"
    [] f = "custom_metadata" -> "CustomMetadata"
    [] f = "ttl" -> "TTL"
    [] OTHER -> "Rotation"

\* the tracked fields the running Update was called with a change of
ChangedTracked ==
  {e \in events[1].body : e.k \in TrackedFields(kind)}

\* C12: the patch request that Update sends contains exactly the tracked
\* fields whose planned value differs from the last-known state, each with
\* its planned value, and no other field (so no immutable field either).
C12_PatchIsExactlyTheChanges ==
  (/\ op = "update" /\ Len(events) >= 1 /\ events[1].e = "update"
   /\ ChangedTracked # {}
   /\ ~(pc = "crashed" /\ Len(events) = 1))
  => /\ Len(events) >= 2 /\ events[2].e = "patch"
     /\ events[2].body = {Entry(PatchKey(e.k), e.v) : e \in ChangedTracked}

\* C13: Delete issues one remote delete, addressed to the secretId segment
\* of the key, and no other remote call; when the call succeeds the local
\* identity is cleared and Delete returns no error, when it fails Delete
\* returns an error and leaves the local record, identity included, as it
\* was.
C13_DeleteClearsOnSuccessOnly ==
  [][(op' = "delete" /\ ops' # ops)
     => /\ Len(events') = 1
        /\ events'[1].e = "delete"
        /\ events'[1].id = Split(d.id)[3]
        /\ d'.attrs = d.attrs
        /\ events'[1].status = 204 => d'.id = <<>> /\ ret' = "ok"
        /\ events'[1].status # 204 => d'.id = d.id /\ ret' = "error_delete"
        /\ pc' = "idle"]_vars

C13_Witness ==
  /\ op = "delete" /\ ret = "ok" /\ d.id = <<>>
  /\ events = <<Ev("delete", NewSecretId(1), 204)>>

\* C20: a Read in which the setting of one field fails returns an error
\* that names that field, and leaves no partly applied result: the fields of
\* the local record are as they were before the Read.
C20_SetFailureLeavesNothingApplied ==
  [][(op' = "read" /\ op = "none" /\ Len(events') >= 2
      /\ events'[2].e = "setfails")
     => /\ ret' = "error_set"
        /\ Len(events') = 3 /\ events'[3].e = "seterror"
        /\ events'[3].id = events'[2].id
        /\ d'.attrs = d.attrs]_vars

(* ---------------------------------------------------------------------- *)
(* Properties of the Secret Mapper (SpecMapper)                            *)
(* ---------------------------------------------------------------------- *)
\* C14: for every triple of non-empty segments without a separator, the key
\* composed as region/instanceId/secretId and split at the separators gives
\* the same three segments back, in their positions; the key
\* "us-south/abc-123/sec-789" gives us-south, abc-123, sec-789.
C14_KeyRoundTrip ==
  /\ call.fn = "key"
     => /\ call.res = call.arg
        /\ Len(call.res) = 3
        /\ Len(call.key) = Len(call.arg[1]) + Len(call.arg[2])
                           + Len(call.arg[3]) + 2
  /\ Split(Sprintf3(<<"us-south">>, <<"abc-123">>, <<"sec-789">>))
     = <<<<"us-south">>, <<"abc-123">>, <<"sec-789">>>>
  /\ Split(<<"us-south", "/", "abc-123", "/", "sec-789">>)[1] = <<"us-south">>

C14_Witness ==
  /\ call.fn = "key"
  /\ call.arg = <<<<"a", "b">>, <<"b">>, <<"b", "a">>>>
  /\ call.res[1] = <<"a", "b">> /\ call.res[2] = <<"b">>
  /\ call.res[3] = <<"b", "a">>

\* the fields of the prototype that the remote record has as well
SettableRemote(k) ==
  {"Name", "Description", "SecretGroupID", "Labels", "CustomMetadata"}
  \cup (IF k = "iam_credentials"
        THEN {"TTL", "AccessGroups", "ServiceID", "ReuseApiKey"}
        ELSE {"CommonName", "AltNames", "KeyAlgorithm", "Ca", "Dns",
              "BundleCerts"})

\* a remote record without a nil among its settable fields and in its
\* rotation policy
NoNulls(k, record) ==
  /\ \A x \in SettableRemote(k) : ~record[x].nil
  /\ ~record.Rotation.intfNil
  /\ ~record.Rotation.AutoRotate.nil /\ ~record.Rotation.Interval.nil
  /\ ~record.Rotation.Unit.nil /\ ~record.Rotation.RotateKeys.nil

\* the rotation policy of a remote record as a prototype holds it
RotationOf(record) ==
  M(<<{Entry("auto_rotate", record.Rotation.AutoRotate.v),
       Entry("interval", record.Rotation.Interval.v),
       Entry("unit", record.Rotation.Unit.v),
       Entry("rotate_keys", record.Rotation.RotateKeys.v)}>>)

\* C16: for both secret types and every remote record without a nil nested
\* field, the prototype that MapToSecretPrototype makes of the fields that
\* Read has written from the record holds, for every settable field, the
\* value the record has for it.
C16_RoundTrip ==
  (call.fn = "roundtrip" /\ NoNulls(kind, call.record))
  => /\ ~call.panic
     /\ \A x \in SettableRemote(kind) :
          Entry(x, call.record[x].v) \in call.proto
     /\ Entry("Rotation", RotationOf(call.record)) \in call.proto

\* the name a field of the configuration has in the prototype
ProtoKey(f) ==
  CASE f = "name" -> "Name"
    [] f = "description" -> "Description"
    [] f = "secret_group_id" -> "SecretGroupID"
    [] f = "labels" -> "Labels"
    [] f = "ttl" -> "TTL"
    [] f = "access_groups" -> "AccessGroups"
    [] f = "service_id" -> "ServiceID"
    [] f = "reuse_api_key" -> "ReuseApiKey"
    [] f = "rotation" -> "Rotation"
    [] f = "custom_metadata" -> "CustomMetadata"
    [] f = "version_custom_metadata" -> "VersionCustomMetadata"
    [] f = "common_name" -> "CommonName"
    [] f = "alt_names" -> "AltNames"
    [] f = "key_algorithm" -> "KeyAlgorithm"
    [] f = "ca" -> "Ca"
    [] f = "dns" -> "Dns"
    [] OTHER -> "BundleCerts"

\* the prototype has the field
InProto(f) == \E e \in call.proto : e.k = ProtoKey(f)

\* C17: the prototype always has the type tag of its secret type, and it has
\* a settable field if and only if the configuration sets the field (a
\* field with a Default of the schema counts as set): a field that is set,
\* also to false or to the empty string, is in the prototype with its value,
\* and an optional field that is not set is not in the prototype.
C17_PresenceDecidesInclusion ==
  call.fn = "prototype" =>
    /\ Entry("SecretType", S(<<kind>>)) \in call.proto
    /\ \A f \in RequiredFields(kind) \cup OptionalFields(kind) :
         /\ InProto(f) <=> (f \in call.present \/ Default(kind, f) # Z)
         /\ (f \in call.present /\ f # "rotation")
            => Entry(ProtoKey(f), call.attrs[f]) \in call.proto
         /\ (f \in call.present /\ f = "rotation")
            => \E e \in call.proto :
                 /\ e.k = "Rotation"
                 /\ call.attrs[f].m[1] \subseteq e.v.m[1]

\* the challenges of the map that the issuance-info mapping returned
ChallengesOut == {e \in call.res : e.k = "challenges"}

\* C21: in the issuance-info mapping, a challenges list that is nil or has
\* no element gives no "challenges" key in the map (never an empty
\* sequence); a list with elements gives one element of the output per
\* element of the input, in the order of the input.
C21_EmptyChallengesOmitted ==
  call.fn = "issuance" =>
    /\ Len(call.model.Challenges) = 0 => ChallengesOut = {}
    /\ Len(call.model.Challenges) > 0 =>
         ChallengesOut =
           {Entry("challenges",
                  M([i \in 1..Len(call.model.Challenges) |->
                       ChallengeResourceToMap(call.model.Challenges[i])]))}

\* the patch calls among the events of the running handler
PatchCalls == {i \in 1..Len(events) : events[i].e = "patch"}

\* the remote calls of the running handler that the remote service has
\* carried out and that change the remote record
RemoteWrites ==
  {i \in 1..Len(events) :
     /\ events[i].e \in {"create", "patch", "delete"}
     /\ events[i].status \in {200, 201, 204}}

\* C22: an Update issues one patch call at the most and does not repeat it;
\* when the call fails, Update returns the error and does not run Read (no
\* Get is issued), and it issues no other call that would change the remote
\* record, which stays as it was.
C22_OnePatchNoRetry ==
  op = "update" =>
    /\ Cardinality(PatchCalls) <= 1
    /\ \A i \in PatchCalls :
         /\ i = 2
         /\ events[i].status # 200
            => /\ ret = "error_update" /\ pc = "idle"
               /\ Len(events) = 2
               /\ RemoteCalls = {2}
               /\ RemoteWrites = {}
         /\ events[i].status = 200 => ret # "error_update"

C22_Witness ==
  /\ op = "update" /\ ret = "error_update" /\ pc = "idle"
  /\ PatchCalls = {2} /\ events[2].status = 400
  /\ Cardinality(events[2].body) >= 2

(* ---------------------------------------------------------------------- *)
(* Properties of Create and Update with a rotation that is not well formed *)
(* (SpecRequests)                                                          *)
(* ---------------------------------------------------------------------- *)
\* the running handler built its request from a rotation that is not well
\* formed: Create from a rotation whose element is nil, Update from a
\* changed rotation without an element or whose element is nil
RotationMalformed ==
  \/ op = "create" /\ d.attrs["rotation"] = M(<<NilBlock>>)
  \/ /\ op = "update" /\ Len(events) >= 1 /\ events[1].e = "update"
     /\ \E e \in events[1].body :
          e.k = "rotation" /\ e.v \in MalformedRotations

\* C23: a rotation sub-record that is not well formed or is missing (also a
\* rotation block that is there and has no element), met while the request
\* is built, is returned by the operation as an error value, and no request
\* is sent: no remote create call by Create, no patch call by Update.
C23_MalformedRotationIsError ==
  RotationMalformed
  => /\ ret \in {"error_create", "error_update"}
     /\ pc = "idle"
     /\ RemoteCalls = {}

(* ---------------------------------------------------------------------- *)
(* Properties of Read: what the local record is made of (Spec)             *)
(* ---------------------------------------------------------------------- *)
\* the Gets of Read among a sequence of events
GetCalls(evs) == {i \in 1..Len(evs) : evs[i].e = "get"}

\* a step in which a Read got a record and came to its end without error
ReadDone == ReadGot({200}) /\ ret' = "ok"

\* the record that the Get of that step fetched
Fetched == CHOOSE r \in events'[Len(events')].body : TRUE

\* the fields that Read writes from the remote record
RemoteDerived ==
  LET ws == ReadWrites(kind, RemoteSecret(kind, <<>>, <<"active">>, 1, "full"),
                       <<<<>>, <<>>, <<>>>>)
  IN {ws[i].f : i \in 1..Len(ws)} \ {"secret_id", "instance_id", "region"}

\* the local record that Read makes of a record alone, without any earlier
\* value
ImageOf(record) ==
  ApplyWrites(NoFields, ReadWrites(kind, record, Split(d.id)))

\* C24 as stated: every Read issues exactly one Get, and after a Read that
\* went through every remote-derived field of the local record is the one of
\* the record that this Get returned.
C24_AllFieldsFromThisGet ==
  [][/\ ReadGot({200, 404, 500, 0}) => Cardinality(GetCalls(events')) = 1
     /\ ReadDone =>
          \A f \in RemoteDerived : d'.attrs[f] = ImageOf(Fetched)[f]]_vars

\* C24, amended: every Read issues exactly one Get; after a Read that went
\* through, every field that Read writes is the one of the record that this
\* Get returned, state and state_description among them, and nothing is
\* taken from the record the waiter returned; a field that Read writes only
\* when the record has it (labels, custom_metadata, access_groups,
\* alt_names, issuance_info, validity, the rotation of the IAM credentials)
\* and that the record has not keeps the value it had before the Read.
C24_WrittenFieldsFromThisGet ==
  [][/\ ReadGot({200, 404, 500, 0}) => Cardinality(GetCalls(events')) = 1
     /\ ReadDone =>
          /\ d'.attrs = ApplyWrites(d.attrs,
                                    ReadWrites(kind, Fetched, Split(d.id)))
          /\ d'.attrs["state"] = IntValue(Fetched.State)
          /\ d'.attrs["state_description"] = SetPtr(Fetched.StateDescription)
          /\ d'.attrs["updated_at"] = DateTimeToString(Fetched.UpdatedAt)]_vars

\* a Create went through whose Read fetched another record than the one the
\* waiter had returned (the waiter returns at "active"), and the record
\* fetched has no labels: the labels are those of the configuration
C24_Witness ==
  /\ op = "create" /\ ret = "ok" /\ Len(events) >= 5
  /\ events[4].e = "poll" /\ LastEvent.e = "get"
  /\ d.attrs["state_description"] = S(<<"suspended">>)
  /\ d.attrs["updated_at"] = DateTimeToString(P(N(2)))
  /\ \E r \in LastEvent.body : r.Labels.nil
  /\ d.attrs["labels"] = Config(kind, "all")["labels"]

(* ---------------------------------------------------------------------- *)
(* Properties of two invocations at the same time (SpecConcurrent)         *)
(* ---------------------------------------------------------------------- *)
\* every poll and every Get of an invocation went to the secret that its
\* own remote create call was answered with
OwnCalls(inv) ==
  \A i \in 1..Len(inv.events) :
    inv.events[i].e \in {"poll", "get"}
    => inv.events[i].id = inv.events[2].id

\* what an invocation ended with follows from the answers to its own calls:
\* it has not returned, or its last call is the one that ended it, and the
\* record it holds is the one of its own secret
OwnOutcome(inv) ==
  /\ inv.pc = "crashed"
     => /\ Len(inv.events) > 0
        /\ inv.events[Len(inv.events)].e \in {"poll", "get"}
        /\ inv.events[Len(inv.events)].status # 200
  /\ inv.ret \in {"none", "running", "ok", "error_wait", "error_get", "panic"}
  /\ inv.ret = "ok"
     => /\ inv.events[Len(inv.events)].e = "get"
        /\ inv.d.attrs["crn"] = S(<<"crn">> \o inv.events[2].id)
        /\ inv.d.attrs["secret_type"] = S(<<inv.kind>>)

\* C25: two operations on different records that run at the same time:
\* under every interleaving of their remote calls, each addresses its own
\* record only, and what each ends with and the local record it leaves
\* depend on the answers for its own record only.
C25_InvocationsIndependent ==
  other.pc # "none" =>
    /\ OwnCalls(Invocation) /\ OwnCalls(other)
    /\ OwnOutcome(Invocation) /\ OwnOutcome(other)
    /\ (d.id # <<>> /\ other.d.id # <<>>) => d.id # other.d.id

(* ---------------------------------------------------------------------- *)
(* Properties of Create after its waiter, and of the waiter (Spec)         *)
(* ---------------------------------------------------------------------- *)
\* the waiter of the running Create has returned an error
WaiterFailed ==
  /\ op = "create"
  /\ waitRes.outcome \in {"failed", "unexpected_state", "transport",
                          "not_found", "timeout"}

\* C26: when the remote create call went through and the waiter then
\* returns an error (failure, not_found, timeout), Create returns an error
\* and runs no Read; the local identity stays the composite key of the
\* secret that was created (it is not cleared), and no remote delete is
\* issued.
C26_WaiterErrorKeepsIdentity ==
  WaiterFailed
  => /\ ret = "error_wait" /\ pc = "idle"
     /\ events[2].e = "create" /\ events[2].status = 201
     /\ CreatedKey(d.id) /\ Split(d.id)[3] = AssignedId
     /\ d.attrs["secret_id"] = S(AssignedId)
     /\ \A i \in 1..Len(events) : events[i].e \notin {"get", "delete"}

C26_Witness ==
  /\ WaiterFailed /\ waitRes.outcome = "failed" /\ polls = 2
  /\ ret = "error_wait" /\ d.id = Sprintf3(<<"u", "s">>, <<"i", "1">>, AssignedId)

(* ---------------------------------------------------------------------- *)
(* Properties of Delete called again (SpecManaged)                         *)
(* ---------------------------------------------------------------------- *)
\* C27: Delete does not take a 404 for absence, as Read does: when the
\* remote delete answers 404, Delete returns an error and leaves the local
\* record with its identity as it was; a Delete that is called again on a
\* secret that is gone does not clear the identity either.
C27_Delete404IsError ==
  [][(op' = "delete" /\ ops' # ops /\ events'[1].status = 404)
     => /\ ret' = "error_delete"
        /\ d' = d /\ d'.id # <<>>
        /\ pc' = "idle"]_vars

C27_Witness ==
  /\ op = "delete" /\ ops = 2 /\ ret = "error_delete"
  /\ events = <<Ev("delete", NewSecretId(1), 404)>>
  /\ d.id = Sprintf3(<<"u", "s">>, <<"i", "1">>, NewSecretId(1))

\* C28: the waiter observes and does nothing else: while it waits, the one
\* kind of remote call it issues is the Get of a poll, addressed to the
\* secretId that is the third segment of the composite key (no create, no
\* patch, no delete), and it leaves the local record, the identity
\* included, as it was, however it ends.
C28_WaiterOnlyObserves ==
  [][pc = "waiting"
     => /\ d' = d
        /\ target' \in {target, <<>>}
        /\ target = Split(d.id)[3]
        /\ \/ events' = events
           \/ /\ Len(events') = Len(events) + 1
              /\ SubSeq(events', 1, Len(events)) = events
              /\ events'[Len(events')].e = "poll"
              /\ events'[Len(events')].id = Split(d.id)[3]]_vars

C28_Witness ==
  /\ op = "create" /\ polls = 3 /\ waitRes.outcome = "unexpected_state"
  /\ Len(events) = 6
  /\ \A i \in 4..6 : events[i].e = "poll" /\ events[i].id = Split(d.id)[3]
  /\ d = [id |-> Sprintf3(<<"u", "s">>, <<"i", "1">>, AssignedId),
          attrs |-> [Config(kind, "all") EXCEPT !["secret_id"] = S(AssignedId)]]

(* ---------------------------------------------------------------------- *)
(* Properties of the rotation policy on Read (SpecMapper)                  *)
(* ---------------------------------------------------------------------- *)
\* C29: for every rotation policy of the remote record, the one without
\* any member set included, the Read of the IAM credentials and the Read of
\* the public certificate leave the same local rotation: both write a block
\* of one element, or both leave the rotation as it was.
C29_RotationReadAlike ==
  call.fn = "rotation" =>
    /\ call.iam = call.cert
    /\ \/ call.iam = call.before
       \/ call.iam = M(<<RotationPolicyToMap(call.policy)>>)

====
